---- MODULE Spec2Model ----
(***************************************************************************)
(* Model of the crop-photo analysis pipeline of the Farm Expert backend:   *)
(*   services/geminiService.js       analyzeWithGemini, parseGeminiResponse *)
(*   services/cropTrackingService.js analyzeGrowthPhoto,                    *)
(*                                   formatAnalysisForStorage,              *)
(*                                   calculateNextPhotoDate                 *)
(*   routes/cropTracking.js          POST /analyze-photo                    *)
(*   server.js (key rotation)        getNextApiKey, callGeminiAPI           *)
(*                                                                         *)
(* The code is JavaScript, so values are dynamically typed.  A JavaScript  *)
(* value is a record [t, n, s, e]: t is the type tag, n the number (or the *)
(* boolean as 0/1, or a date's day offset), s the string, e the elements   *)
(* of an array.  Strings are TLA+ strings, read character by character     *)
(* with SubSeq.  Numbers are integers; NaN has its own tag.                *)
(***************************************************************************)
EXTENDS Integers, Sequences, FiniteSets, TLC

----------------------------------------------------------------------------
(* JavaScript values *)

JSVal(t, n, s, e) == [t |-> t, n |-> n, s |-> s, e |-> e]

Undef == JSVal("undefined", 0, "", <<>>)

Null == JSVal("null", 0, "", <<>>)

NaN == JSVal("nan", 0, "", <<>>)

Num(i) == JSVal("number", i, "", <<>>)

Str(x) == JSVal("string", 0, x, <<>>)

Bool(b) == JSVal("boolean", IF b THEN 1 ELSE 0, "", <<>>)

Arr(xs) == JSVal("array", 0, "", xs)

\* a plain object whose members the code never reads
Obj == JSVal("object", 0, "", <<>>)

\* a built-in function object, such as Object.prototype.toString
Fn(name) == JSVal("function", 0, name, <<>>)

\* a Date n days after the current day
DateVal(n) == JSVal("date", n, "", <<>>)

InvalidDate == JSVal("invalid-date", 0, "", <<>>)

Ch(s, i) == SubSeq(s, i, i)

Digits == <<"0", "1", "2", "3", "4", "5", "6", "7", "8", "9">>

IsDigit(c) == \E d \in 1..10 : Digits[d] = c

DigitVal(c) == (CHOOSE d \in 1..10 : Digits[d] = c) - 1

RECURSIVE NatToString(_)
NatToString(i) ==
  IF i < 10 THEN Digits[i + 1]
  ELSE NatToString(i \div 10) \o Digits[(i % 10) + 1]

\* Number.prototype.toString for integers
NumToString(i) == IF i < 0 THEN "-" \o NatToString(0 - i) ELSE NatToString(i)

RECURSIVE AllDigits(_, _, _)
AllDigits(s, i, j) ==
  IF i > j THEN TRUE ELSE IsDigit(Ch(s, i)) /\ AllDigits(s, i + 1, j)

RECURSIVE DigitsValue(_, _, _, _)
DigitsValue(s, i, j, acc) ==
  IF i > j THEN acc ELSE DigitsValue(s, i + 1, j, acc * 10 + DigitVal(Ch(s, i)))

\* StringToNumber: "" is 0, a decimal integer literal is its value, any
\* other text is NaN (the strings of this model hold no white space padding,
\* fractions, exponents or hex literals)
StringToNumber(s) ==
  IF Len(s) = 0 THEN Num(0)
  ELSE IF Ch(s, 1) = "-" /\ Len(s) > 1 /\ AllDigits(s, 2, Len(s))
    THEN Num(0 - DigitsValue(s, 2, Len(s), 0))
  ELSE IF AllDigits(s, 1, Len(s)) THEN Num(DigitsValue(s, 1, Len(s), 0))
  ELSE NaN

FnSource == "function () { [native code] }"

RECURSIVE JsToString(_)
RECURSIVE JoinElems(_, _)
\* Array.prototype.join(","): null and undefined elements render as ""
JoinElems(xs, i) ==
  IF i > Len(xs) THEN ""
  ELSE (IF i > 1 THEN "," ELSE "")
       \o (IF xs[i].t \in {"null", "undefined"} THEN "" ELSE JsToString(xs[i]))
       \o JoinElems(xs, i + 1)

\* the abstract operation ToString
JsToString(v) ==
  CASE v.t = "string" -> v.s
    [] v.t = "number" -> NumToString(v.n)
    [] v.t = "nan" -> "NaN"
    [] v.t = "boolean" -> (IF v.n = 1 THEN "true" ELSE "false")
    [] v.t = "null" -> "null"
    [] v.t = "undefined" -> "undefined"
    [] v.t = "array" -> JoinElems(v.e, 1)
    [] v.t = "object" -> "[object Object]"
    [] v.t = "function" -> FnSource
    [] OTHER -> "Invalid Date"

\* the abstract operation ToNumber
JsToNumber(v) ==
  CASE v.t = "number" -> v
    [] v.t = "nan" -> NaN
    [] v.t = "boolean" -> Num(v.n)
    [] v.t = "null" -> Num(0)
    [] v.t = "undefined" -> NaN
    [] v.t = "string" -> StringToNumber(v.s)
    [] v.t = "date" -> Num(v.n)
    [] v.t = "invalid-date" -> NaN
    [] OTHER -> StringToNumber(JsToString(v))

\* the abstract operation ToBoolean
Truthy(v) ==
  CASE v.t \in {"undefined", "null", "nan"} -> FALSE
    [] v.t \in {"number", "boolean"} -> v.n # 0
    [] v.t = "string" -> v.s # ""
    [] OTHER -> TRUE

\* a || b
JsOr(a, b) == IF Truthy(a) THEN a ELSE b

\* Math.min(a, b) and Math.max(a, b): NaN if either argument converts to NaN
MathMin(a, b) ==
  LET x == JsToNumber(a)
      y == JsToNumber(b)
  IN IF x.t = "nan" \/ y.t = "nan" THEN NaN
     ELSE IF x.n <= y.n THEN x ELSE y

MathMax(a, b) ==
  LET x == JsToNumber(a)
      y == JsToNumber(b)
  IN IF x.t = "nan" \/ y.t = "nan" THEN NaN
     ELSE IF x.n >= y.n THEN x ELSE y

\* a < k and a <= k with a number k on the right: false when a converts to NaN
JsLess(a, k) == LET x == JsToNumber(a) IN x.t = "number" /\ x.n < k

JsLessEq(a, k) == LET x == JsToNumber(a) IN x.t = "number" /\ x.n <= k

\* a - k with a number k
JsMinus(a, k) == LET x == JsToNumber(a) IN IF x.t = "nan" THEN NaN ELSE Num(x.n - k)

\* a + b: string concatenation when either operand is a string or an object
\* (whose primitive is a string), numeric addition otherwise
JsPlus(a, b) ==
  LET stringy(v) == v.t \in {"string", "array", "object", "function", "date", "invalid-date"}
  IN IF stringy(a) \/ stringy(b) THEN Str(JsToString(a) \o JsToString(b))
     ELSE LET x == JsToNumber(a)
              y == JsToNumber(b)
          IN IF x.t = "nan" \/ y.t = "nan" THEN NaN ELSE Num(x.n + y.n)

UpperCase == "ABCDEFGHIJKLMNOPQRSTUVWXYZ"

LowerCase == "abcdefghijklmnopqrstuvwxyz"

LowerChar(c) ==
  IF \E k \in 1..26 : Ch(UpperCase, k) = c
  THEN Ch(LowerCase, CHOOSE k \in 1..26 : Ch(UpperCase, k) = c)
  ELSE c

RECURSIVE LowerFrom(_, _)
LowerFrom(s, i) ==
  IF i > Len(s) THEN "" ELSE LowerChar(Ch(s, i)) \o LowerFrom(s, i + 1)

\* String.prototype.toLowerCase (ASCII letters)
ToLowerCase(s) == LowerFrom(s, 1)

\* String.prototype.includes
Includes(s, k) ==
  \E i \in 1..(Len(s) - Len(k) + 1) : SubSeq(s, i, i + Len(k) - 1) = k

----------------------------------------------------------------------------
(* JSON.parse and the regular expression of parseGeminiResponse *)

\* the members of an AI reply or of a parse wrapper that the code reads
Keys ==
  {"healthScore", "growthStage", "issues", "observations", "recommendations",
   "nextPhotoDays", "urgency", "parsed", "rawResponse", "error"}

\* an object none of whose members is set: every read gives undefined
EmptyObject == [k \in Keys |-> Undef]

SetKey(obj, k, v) == IF k \in Keys THEN [obj EXCEPT ![k] = v] ELSE obj

PFail == [ok |-> FALSE, pos |-> 0, val |-> Undef, obj |-> EmptyObject]

POk(pos, val, obj) == [ok |-> TRUE, pos |-> pos, val |-> val, obj |-> obj]

RECURSIVE SkipWs(_, _)
SkipWs(s, i) == IF i <= Len(s) /\ Ch(s, i) = " " THEN SkipWs(s, i + 1) ELSE i

RECURSIVE StringEnd(_, _)
\* the index of the quote closing a string whose first character is at i, or
\* 0 when there is none (the texts of this model hold no backslash escapes)
StringEnd(s, i) ==
  IF i > Len(s) \/ Ch(s, i) = "\\" THEN 0
  ELSE IF Ch(s, i) = "\"" THEN i
  ELSE StringEnd(s, i + 1)

RECURSIVE DigitsEnd(_, _)
DigitsEnd(s, i) == IF i <= Len(s) /\ IsDigit(Ch(s, i)) THEN DigitsEnd(s, i + 1) ELSE i

\* a JSON integer, -? (0 | [1-9][0-9]*), whose digits are s[st..en-1]
NumberAt(s, neg, st, en) ==
  IF en = st \/ (en - st > 1 /\ Ch(s, st) = "0") THEN PFail
  ELSE POk(en, Num((IF neg THEN -1 ELSE 1) * DigitsValue(s, st, en - 1, 0)), EmptyObject)

ParseNumber(s, i) ==
  IF Ch(s, i) = "-" THEN NumberAt(s, TRUE, i + 1, DigitsEnd(s, i + 1))
  ELSE NumberAt(s, FALSE, i, DigitsEnd(s, i))

\* a JSON string whose opening quote is at i and whose closing quote is at en
StringAt(s, i, en) ==
  IF en = 0 THEN PFail ELSE POk(en + 1, Str(SubSeq(s, i + 1, en - 1)), EmptyObject)

ParseString(s, i) == StringAt(s, i, StringEnd(s, i + 1))

ParseLiteral(s, i, word, v) ==
  IF i + Len(word) - 1 <= Len(s) /\ SubSeq(s, i, i + Len(word) - 1) = word
  THEN POk(i + Len(word), v, EmptyObject)
  ELSE PFail

\* the character at i, "" past the end of the text
CharAt(s, i) == IF i <= Len(s) THEN Ch(s, i) ELSE ""

\* the parse result r with the white space after the value skipped
Trimmed(s, r) == IF r.ok THEN [r EXCEPT !.pos = SkipWs(s, r.pos)] ELSE PFail

RECURSIVE ParseValue(_, _)
RECURSIVE ParseElems(_, _, _)
RECURSIVE ParseMembers(_, _, _)

\* after the array element r: "," and the next element, or "]"
ElemsNext(s, acc, r) ==
  IF ~r.ok THEN PFail
  ELSE IF CharAt(s, r.pos) = "," THEN ParseElems(s, r.pos + 1, Append(acc, r.val))
  ELSE IF CharAt(s, r.pos) = "]" THEN POk(r.pos + 1, Arr(Append(acc, r.val)), EmptyObject)
  ELSE PFail

\* the elements of an array after "[" or ",": value ("," value)* "]"
ParseElems(s, i, acc) == ElemsNext(s, acc, ParseValue(s, i))

\* after the member value r: "," and the next member, or "}"; a repeated
\* name keeps its last value
MembersNext(s, obj, key, r) ==
  IF ~r.ok THEN PFail
  ELSE IF CharAt(s, r.pos) = "," THEN ParseMembers(s, r.pos + 1, SetKey(obj, key, r.val))
  ELSE IF CharAt(s, r.pos) = "}" THEN POk(r.pos + 1, Obj, SetKey(obj, key, r.val))
  ELSE PFail

\* after the member name: white space, ":" at c, and the value
MemberValue(s, obj, name, c) ==
  IF name.ok /\ CharAt(s, c) = ":"
  THEN MembersNext(s, obj, name.val.s, ParseValue(s, c + 1))
  ELSE PFail

MemberColon(s, obj, name) == MemberValue(s, obj, name, SkipWs(s, name.pos))

\* a member whose name starts at k
MemberAt(s, obj, k) ==
  IF CharAt(s, k) = "\"" THEN MemberColon(s, obj, ParseString(s, k)) ELSE PFail

\* the members of an object after "{" or ",": string ":" value ("," ...)* "}"
ParseMembers(s, i, obj) == MemberAt(s, obj, SkipWs(s, i))

\* after "[" and white space: the empty array, or the elements
ArrayAt(s, k) ==
  IF CharAt(s, k) = "]" THEN POk(k + 1, Arr(<<>>), EmptyObject)
  ELSE ParseElems(s, k, <<>>)

\* after "{" and white space: the empty object, or the members
ObjectAt(s, k) ==
  IF CharAt(s, k) = "}" THEN POk(k + 1, Obj, EmptyObject)
  ELSE ParseMembers(s, k, EmptyObject)

\* the JSON value that starts with character c at k
ValueAt(s, k, c) ==
  CASE c = "\"" -> ParseString(s, k)
    [] c = "-" \/ IsDigit(c) -> ParseNumber(s, k)
    [] c = "t" -> ParseLiteral(s, k, "true", Bool(TRUE))
    [] c = "f" -> ParseLiteral(s, k, "false", Bool(FALSE))
    [] c = "n" -> ParseLiteral(s, k, "null", Null)
    [] c = "[" -> ArrayAt(s, SkipWs(s, k + 1))
    [] c = "{" -> ObjectAt(s, SkipWs(s, k + 1))
    [] OTHER -> PFail

ValueFrom(s, k) == Trimmed(s, ValueAt(s, k, CharAt(s, k)))

\* a JSON value with the white space around it; pos is the index after it
ParseValue(s, i) == ValueFrom(s, SkipWs(s, i))

\* the whole text must be one value
WholeText(s, r) ==
  IF r.ok /\ r.pos = Len(s) + 1
  THEN [threw |-> FALSE, val |-> r.val, obj |-> r.obj]
  ELSE [threw |-> TRUE, val |-> Undef, obj |-> EmptyObject]

\* JSON.parse(text): threw is TRUE for a SyntaxError; otherwise val is the
\* value and, for an object, obj holds its members
JSONParse(s) == WholeText(s, ParseValue(s, 1))

RECURSIVE IndexOf(_, _, _)
\* the first index >= i of character c in s, or 0
IndexOf(s, c, i) ==
  IF i > Len(s) THEN 0 ELSE IF Ch(s, i) = c THEN i ELSE IndexOf(s, c, i + 1)

RECURSIVE LastIndexOf(_, _, _)
\* the last index <= i of character c in s, or 0
LastIndexOf(s, c, i) ==
  IF i < 1 THEN 0 ELSE IF Ch(s, i) = c THEN i ELSE LastIndexOf(s, c, i - 1)

\* rawResponse.match(/\{[\s\S]*\}/): the greedy match runs from the first "{"
\* to the last "}" of the text; found is FALSE for null (no "{" followed by "}")
RegexMatch(s) ==
  LET first == IndexOf(s, "{", 1)
      last == LastIndexOf(s, "}", Len(s))
  IN IF first # 0 /\ last > first
     THEN [found |-> TRUE, text |-> SubSeq(s, first, last)]
     ELSE [found |-> FALSE, text |-> ""]

----------------------------------------------------------------------------
(* services/geminiService.js and services/cropTrackingService.js *)

IsArray(v) == v.t = "array"

\* the object literal { rawResponse, parsed: false } of parseGeminiResponse,
\* with the error member the catch block adds
Unparsed(rawResponse, error) ==
  [EmptyObject EXCEPT !.rawResponse = rawResponse,
                      !.parsed = Bool(FALSE),
                      !.error = error]

\* parseGeminiResponse: rawResponse.match raises a TypeError for anything but
\* a string and JSON.parse a SyntaxError; both land in the catch block
parseGeminiResponse(rawResponse) ==
  IF rawResponse.t # "string"
  THEN Unparsed(rawResponse, Str("rawResponse.match is not a function"))
  ELSE LET jsonMatch == RegexMatch(rawResponse.s)
           json == JSONParse(jsonMatch.text)
       IN IF ~jsonMatch.found THEN Unparsed(rawResponse, Undef)
          ELSE IF json.threw THEN Unparsed(rawResponse, Str("Unexpected token"))
          ELSE json.obj

\* the accepted urgencies without "urgent"
UrgencyValuesNoUrgent == {"routine", "important", "critical"}

UrgencyValues == {"routine", "important", "critical", "urgent"}

\* the record formatAnalysisForStorage returns for unparsed responses
DegradedRecord(geminiResponse) ==
  [healthScore |-> Num(50),
   growthStage |-> Str("unknown"),
   issues |-> Arr(<<Str("Unable to parse AI response")>>),
   observations |-> JsOr(geminiResponse.rawResponse, Str("Analysis unavailable")),
   recommendations |-> Arr(<<Str("Manual review needed")>>),
   nextPhotoDate |-> Null,
   nextPhotoDays |-> Num(3),
   urgency |-> Str("important")]

\* the record built without the Array.isArray tests
ValidatedRecordUnchecked(analysis) ==
  [healthScore |-> MathMax(Num(0), MathMin(Num(100), JsOr(analysis.healthScore, Num(50)))),
   growthStage |-> JsOr(analysis.growthStage, Str("unknown")),
   issues |-> JsOr(analysis.issues, Arr(<<>>)),
   observations |-> JsOr(analysis.observations, Str("No observations available")),
   recommendations |-> JsOr(analysis.recommendations, Arr(<<Str("Monitor plant growth")>>)),
   nextPhotoDate |-> Null,
   nextPhotoDays |-> MathMax(Num(1), MathMin(Num(7), JsOr(analysis.nextPhotoDays, Num(4)))),
   urgency |-> IF analysis.urgency.t = "string" /\ analysis.urgency.s \in UrgencyValues
               THEN analysis.urgency
               ELSE Str("routine")]

\* the record formatAnalysisForStorage builds from a parsed JSON object
ValidatedRecord(analysis) ==
  [healthScore |-> MathMax(Num(0), MathMin(Num(100), JsOr(analysis.healthScore, Num(50)))),
   growthStage |-> JsOr(analysis.growthStage, Str("unknown")),
   issues |-> IF IsArray(analysis.issues) THEN analysis.issues ELSE Arr(<<>>),
   observations |-> JsOr(analysis.observations, Str("No observations available")),
   recommendations |-> IF IsArray(analysis.recommendations)
                       THEN analysis.recommendations
                       ELSE Arr(<<Str("Monitor plant growth")>>),
   nextPhotoDate |-> Null,
   nextPhotoDays |-> MathMax(Num(1), MathMin(Num(7), JsOr(analysis.nextPhotoDays, Num(4)))),
   urgency |-> IF analysis.urgency.t = "string" /\ analysis.urgency.s \in UrgencyValues
               THEN analysis.urgency
               ELSE Str("routine")]

\* formatAnalysisForStorage testing only "parsed !== false"
formatAnalysisForStorageOnlyFalseTest(geminiResponse) ==
  IF geminiResponse.parsed # Bool(FALSE)
  THEN ValidatedRecord(geminiResponse)
  ELSE DegradedRecord(geminiResponse)

\* formatAnalysisForStorage with the test "parsed !== false" left out
formatAnalysisForStorageNoFalseTest(geminiResponse) ==
  IF ~Truthy(geminiResponse.parsed)
  THEN ValidatedRecord(geminiResponse)
  ELSE DegradedRecord(geminiResponse)

\* formatAnalysisForStorage(geminiResponse, dayNumber); dayNumber is not used
formatAnalysisForStorage(geminiResponse) ==
  IF ~Truthy(geminiResponse.parsed) /\ geminiResponse.parsed # Bool(FALSE)
  THEN ValidatedRecord(geminiResponse)
  ELSE DegradedRecord(geminiResponse)

\* the catch block of analyzeGrowthPhoto returning the parse fallback instead
UnavailableRecordAsDegraded == DegradedRecord(EmptyObject)

\* the fallback analysis of analyzeGrowthPhoto's catch block
UnavailableRecord ==
  [healthScore |-> Num(50),
   growthStage |-> Str("unknown"),
   issues |-> Arr(<<Str("Analysis failed - manual review needed")>>),
   observations |-> Str("AI analysis unavailable"),
   recommendations |-> Arr(<<Str("Upload photo again"), Str("Check image quality")>>),
   nextPhotoDate |-> DateVal(3),
   nextPhotoDays |-> Num(3),
   urgency |-> Str("important")]

\* an analysis record not yet produced
NoAnalysis ==
  [healthScore |-> Undef, growthStage |-> Undef, issues |-> Undef,
   observations |-> Undef, recommendations |-> Undef, nextPhotoDate |-> Undef,
   nextPhotoDays |-> Undef, urgency |-> Undef]

\* what a call gives back: threw is TRUE when it raised an error
Returned(v) == [threw |-> FALSE, value |-> v]

Threw(v) == [threw |-> TRUE, value |-> v]

\* analyzeGrowthPhoto without its catch block: the error of analyzeWithGemini
\* goes on to the caller
analyzeGrowthPhotoNoCatch(outcome) ==
  IF outcome.threw THEN Threw(NoAnalysis)
  ELSE Returned(formatAnalysisForStorage(parseGeminiResponse(outcome.value)))

\* analyzeGrowthPhoto, from the outcome of its analyzeWithGemini call onward:
\* the try block parses and formats the text, the catch block answers any
\* error with the fallback analysis
analyzeGrowthPhoto(outcome) ==
  IF outcome.threw THEN Returned(UnavailableRecord)
  ELSE Returned(formatAnalysisForStorage(parseGeminiResponse(outcome.value)))

\* the names every object inherits from Object.prototype
PrototypeFunctions ==
  {"constructor", "hasOwnProperty", "isPrototypeOf", "propertyIsEnumerable",
   "toLocaleString", "toString", "valueOf", "__defineGetter__",
   "__defineSetter__", "__lookupGetter__", "__lookupSetter__"}

\* stageAdjustments[growthStage]: the key is ToString(growthStage); the own
\* members first, then the members inherited from Object.prototype
stageAdjustments(growthStage) ==
  LET key == JsToString(growthStage)
  IN CASE key \in {"germination", "maturity"} -> Num(1)
       [] key \in {"flowering", "fruiting"} -> Num(-1)
       [] key \in PrototypeFunctions -> Fn(key)
       [] key = "__proto__" -> Obj
       [] OTHER -> Undef

CriticalWords == {"disease", "pest", "dying"}

\* the callback of issues.some: issue.toLowerCase() is computed once and
\* searched for each word
IsCriticalIssue(issue) ==
  \E lower \in {ToLowerCase(issue)} : \E w \in CriticalWords : Includes(lower, w)

RECURSIVE SomeCritical(_, _)
\* issues.some(issue => issue.toLowerCase().includes(...)), from element i on:
\* "true", "false", or "throw" when an element met before any match has no
\* toLowerCase method (it is not a string)
SomeCritical(issues, i) ==
  IF i > Len(issues) THEN "false"
  ELSE IF issues[i].t # "string" THEN "throw"
  ELSE IF IsCriticalIssue(issues[i].s) THEN "true"
  ELSE SomeCritical(issues, i + 1)

\* the value of issues.length
LengthOf(v) ==
  CASE v.t = "array" -> Num(Len(v.e))
    [] v.t = "string" -> Num(Len(v.s))
    [] OTHER -> Undef

\* the test "currentAnalysis.issues && currentAnalysis.issues.length > 0"
\* followed by the call of issues.some, a method only arrays have: "true",
\* "false", or "throw" for the TypeError
hasCriticalIssues(issues) ==
  IF Truthy(issues) /\ LengthOf(issues).t = "number" /\ LengthOf(issues).n > 0
  THEN (IF IsArray(issues) THEN SomeCritical(issues.e, 1) ELSE "throw")
  ELSE "false"

HealthThreshold == 70

DefaultDays == 4

CriticalCap == 2

MinDays == 1

MaxDays == 7

\* baseDays after the health, issue and stage adjustments
adjustedDays(currentAnalysis, growthStage, critical) ==
  LET base == JsOr(currentAnalysis.nextPhotoDays, Num(DefaultDays))
      afterHealth == IF JsLess(currentAnalysis.healthScore, HealthThreshold)
                     THEN MathMax(Num(MinDays), JsMinus(base, 1))
                     ELSE base
      afterIssues == IF critical THEN MathMin(Num(CriticalCap), afterHealth) ELSE afterHealth
  IN JsPlus(afterIssues, JsOr(stageAdjustments(growthStage), Num(0)))

\* the urgency with "<" where the code has "<="
urgencyOfStrict(finalDays) ==
  IF JsLess(finalDays, 2) THEN "critical"
  ELSE IF JsLess(finalDays, 3) THEN "important"
  ELSE "routine"

urgencyOf(finalDays) ==
  IF JsLessEq(finalDays, 2) THEN "critical"
  ELSE IF JsLessEq(finalDays, 3) THEN "important"
  ELSE "routine"

\* a schedule decision not yet produced
NoDecision == [nextPhotoDate |-> Undef, nextPhotoDays |-> Undef, urgency |-> Undef]

\* calculateNextPhotoDate giving rice one day more
calculateNextPhotoDateByCrop(currentAnalysis, cropType, growthStage) ==
  LET critical == hasCriticalIssues(currentAnalysis.issues)
      baseDays == JsPlus(adjustedDays(currentAnalysis, growthStage, critical = "true"),
                         IF cropType = Str("rice") THEN Num(1) ELSE Num(0))
      finalDays == MathMax(Num(MinDays), MathMin(Num(MaxDays), baseDays))
  IN IF critical = "throw" THEN Threw(NoDecision)
     ELSE Returned([nextPhotoDate |-> IF finalDays.t = "number"
                                      THEN DateVal(finalDays.n)
                                      ELSE InvalidDate,
                    nextPhotoDays |-> finalDays,
                    urgency |-> Str(urgencyOf(finalDays))])

\* calculateNextPhotoDate(currentAnalysis, cropType, growthStage)
calculateNextPhotoDate(currentAnalysis, cropType, growthStage) ==
  LET critical == hasCriticalIssues(currentAnalysis.issues)
      baseDays == adjustedDays(currentAnalysis, growthStage, critical = "true")
      finalDays == MathMax(Num(MinDays), MathMin(Num(MaxDays), baseDays))
  IN IF critical = "throw" THEN Threw(NoDecision)
     ELSE Returned([nextPhotoDate |-> IF finalDays.t = "number"
                                      THEN DateVal(finalDays.n)
                                      ELSE InvalidDate,
                    nextPhotoDays |-> finalDays,
                    urgency |-> Str(urgencyOf(finalDays))])

----------------------------------------------------------------------------
(* The inputs: what the upstream API can reply and what a client can send *)

\* the most members an enumerated AI reply object holds
MaxMembers == 2

\* the most calls of callGeminiAPI (the server's other endpoints) in a run
MaxCalls == 2

\* members an AI reply can hold, as JSON text
Members ==
  << "\"healthScore\":0",
     "\"healthScore\":-5",
     "\"healthScore\":150",
     "\"healthScore\":85",
     "\"healthScore\":\"high\"",
     "\"growthStage\":\"flowering\"",
     "\"growthStage\":\"germination\"",
     "\"growthStage\":\"\"",
     "\"growthStage\":\"seedling\"",
     "\"growthStage\":\"constructor\"",
     "\"issues\":[]",
     "\"issues\":[\"Pest damage observed\"]",
     "\"issues\":[1]",
     "\"issues\":\"none\"",
     "\"recommendations\":[\"Water daily\"]",
     "\"recommendations\":\"none\"",
     "\"observations\":\"Leaves look green\"",
     "\"nextPhotoDays\":0",
     "\"nextPhotoDays\":5",
     "\"nextPhotoDays\":9",
     "\"nextPhotoDays\":-1",
     "\"urgency\":\"urgent\"",
     "\"urgency\":\"soon\"",
     "\"parsed\":true",
     "\"parsed\":false" >>

RECURSIVE JoinMembers(_, _)
JoinMembers(q, i) ==
  IF i > Len(q) THEN ""
  ELSE (IF i > 1 THEN "," ELSE "") \o Members[q[i]] \o JoinMembers(q, i + 1)

\* the JSON text of the object holding the members numbered q[1], q[2], ...
ObjectText(q) == "{" \o JoinMembers(q, 1) \o "}"

\* the selections of at most MaxMembers members, in the order of Members
Selections ==
  {q \in UNION {[1..k -> 1..Len(Members)] : k \in 0..MaxMembers} :
     \A i, j \in DOMAIN q : i < j => q[i] < q[j]}

\* texts that hold no JSON object the code can extract, or more than one
OtherTexts ==
  {"",
   "The plant looks healthy.",
   "{the plant looks healthy}",
   "{\"healthScore\":85",
   "\"healthScore\":85}",
   "{\"healthScore\":85} {\"healthScore\":20}",
   "{\"healthScore\":85} Note the stray }"}

\* the text field of a successful upstream reply: a JSON object alone, one
\* inside prose, or one of the other texts; undefined is the text of a reply
\* whose first part has no text member
ReplyTexts ==
  {Str(ObjectText(q)) : q \in Selections}
  \cup {Str("Here is the analysis: " \o ObjectText(q) \o " Good luck.") :
          q \in {p \in Selections : Len(p) <= 1}}
  \cup {Str(t) : t \in OtherTexts}
  \cup {Undef}

\* one upstream attempt ends in one of these ways
FailureKinds == {"network", "status", "no_candidates"}

\* error.message of a failed attempt
ErrorMessage(kind) ==
  CASE kind = "network" -> "timeout of 30000ms exceeded"
    [] kind = "status" -> "Request failed with status code 429"
    [] OTHER -> "Cannot read properties of undefined (reading '0')"

ValidCrops == {"tomato", "chili", "onion", "potato", "wheat", "rice", "corn", "lettuce"}

\* what a client sends: cropType (undefined when missing) and whether an
\* image file came with it
Requests ==
  [cropType : {Undef, Str("Rice"), Str("banana")}, file : BOOLEAN]

\* the keys of the rotation pool (GEMINI_API_KEY_1, ...) set in the environment
ConfiguredKeys == <<"key1", "key2">>

----------------------------------------------------------------------------
(* The server: one /api/crop-test/analyze-photo request, beside calls of    *)
(* callGeminiAPI made by the other endpoints of the same process            *)

VARIABLES
  pc,              \* where the analyze-photo request is
  cropInfo,        \* cropInfo.cropType of the request
  attempt,         \* the loop variable of analyzeWithGemini
  lastError,       \* its lastError (the message), "" before any failure
  posts,           \* how each axios.post so far ended: "ok" or "fail"
  delays,          \* the backoff delays slept so far, in ms
  outcome,         \* what analyzeWithGemini gave back
  parsedResponse,  \* what parseGeminiResponse returned
  analysis,        \* what analyzeGrowthPhoto resolved with
  nextPhoto,       \* what calculateNextPhotoDate returned
  response,        \* the HTTP response sent
  apiKeys,         \* the rotation pool
  rotationCounter, \* the rotation counter of getNextApiKey
  calls,           \* calls of callGeminiAPI made so far
  selected,        \* what each call of getNextApiKey saw and returned
  inFlight,        \* the callers whose callGeminiAPI awaits its axios.post
  decisions,       \* what repeated calls of calculateNextPhotoDate returned
  settledCalls,    \* how many calls of callGeminiAPI returned and how many threw
  runs             \* the calls of analyzeWithGemini made by concurrent requests

vars ==
  <<pc, cropInfo, attempt, lastError, posts, delays, outcome, parsedResponse,
    analysis, nextPhoto, response, apiKeys, rotationCounter, calls,
    selected, inFlight, decisions, settledCalls, runs>>

\* the state the analyze-photo request leaves alone
aside == <<selected, inFlight, decisions, settledCalls, runs>>

\* the requests that call analyzeWithGemini at the same time
Analysts == 1..2

\* a call of analyzeWithGemini not yet made: its locals attempt and lastError,
\* and what it has posted and slept so far
NoRun == [pc |-> "idle", attempt |-> 0, lastError |-> "", posts |-> <<>>, delays |-> <<>>]

\* res.status(status).json({ success, error, message })
Response(status, error, message) ==
  [status |-> status, success |-> status = 200, error |-> error, message |-> message]

NoResponse == Response(0, "", "")

NoOutcome == Returned(Undef)

\* the state of the server when it starts listening, with the pool keys
InitWith(keys) ==
  /\ pc = "idle"
  /\ cropInfo = Undef
  /\ attempt = 0
  /\ lastError = ""
  /\ posts = <<>>
  /\ delays = <<>>
  /\ outcome = NoOutcome
  /\ parsedResponse = EmptyObject
  /\ analysis = NoAnalysis
  /\ nextPhoto = NoDecision
  /\ response = NoResponse
  /\ apiKeys = keys
  /\ rotationCounter = 0
  /\ calls = 0
  /\ selected = <<>>
  /\ inFlight = {}
  /\ decisions = <<>>
  /\ settledCalls = [returned |-> 0, threw |-> 0]
  /\ runs = [r \in Analysts |-> NoRun]

Init == InitWith(ConfiguredKeys)

MaxAttempts == 3

BaseDelay == 1000

\* the loop allowing one attempt too many
LoopContinuesOneMore(a) == a <= MaxAttempts

\* the for loop's condition "attempt < 3"
LoopContinues(a) == a < MaxAttempts

\* the catch block sleeping after every failed attempt, the last included
ShouldBackoffAlways(a) == TRUE

\* the catch block's "if (attempt < 2)"
ShouldBackoff(a) == a < 2

\* the setTimeout delay of the catch block, "1000 * (attempt + 1)"
BackoffDelay(a) == BaseDelay * (a + 1)

\* router.post('/analyze-photo'), up to the first axios.post: the validation
\* answers 400, otherwise analyzeGrowthPhoto calls analyzeWithGemini, which
\* enters its loop
ReceiveRequest(req) ==
  /\ pc = "idle"
  /\ IF ~Truthy(req.cropType)
     THEN /\ response' = Response(400, "cropType is required", "")
          /\ pc' = "responded"
          /\ UNCHANGED cropInfo
     ELSE IF ~req.file
     THEN /\ response' = Response(400, "Image file is required", "")
          /\ pc' = "responded"
          /\ UNCHANGED cropInfo
     ELSE IF ToLowerCase(req.cropType.s) \notin ValidCrops
     THEN /\ response' = Response(400, "Invalid cropType", "")
          /\ pc' = "responded"
          /\ UNCHANGED cropInfo
     ELSE /\ cropInfo' = Str(ToLowerCase(req.cropType.s))
          /\ pc' = "posting"
          /\ UNCHANGED response
  /\ UNCHANGED <<attempt, lastError, posts, delays, outcome, parsedResponse,
                 analysis, nextPhoto, apiKeys, rotationCounter, calls, aside>>

\* analyzeWithGemini has settled with result: analyzeGrowthPhoto resolves
\* with an analysis, which the route handler awaits; were it to reject, the
\* handler's catch block would answer 500 with the error's message
GrowthPhotoSettles(result) ==
  \E r \in {analyzeGrowthPhoto(result)} :
     /\ outcome' = result
     /\ parsedResponse' = IF result.threw THEN EmptyObject
                          ELSE parseGeminiResponse(result.value)
     /\ lastError' = ""
     /\ pc' = IF r.threw THEN "responded" ELSE "analysed"
     /\ analysis' = IF r.threw THEN analysis ELSE r.value
     /\ response' = IF r.threw
                    THEN Response(500, "Analysis failed", result.value.s)
                    ELSE response

\* the loop of analyzeWithGemini moves on after a failed attempt: the next
\* axios.post, or the throw after the loop when the condition fails
NextIteration(message) ==
  /\ attempt' = attempt + 1
  /\ IF LoopContinues(attempt + 1)
     THEN /\ pc' = "posting"
          /\ lastError' = message
          /\ UNCHANGED <<outcome, parsedResponse, analysis, response>>
     ELSE GrowthPhotoSettles(Threw(Str("Gemini API failed after 3 attempts: " \o message)))

\* an axios.post of analyzeWithGemini resolves and the envelope holds a first
\* part: analyzeWithGemini returns its text, and analyzeGrowthPhoto parses
\* and formats it
AttemptReturns(text) ==
  /\ pc = "posting"
  /\ posts' = Append(posts, "ok")
  /\ GrowthPhotoSettles(Returned(text))
  /\ UNCHANGED <<cropInfo, attempt, delays, nextPhoto, apiKeys, rotationCounter, calls,
                 aside>>

\* an attempt of analyzeWithGemini fails (axios.post rejects, or the envelope
\* has no candidates): the catch block keeps the error and, if attempt < 2,
\* sleeps; otherwise the loop moves on at once
AttemptThrows(kind) ==
  /\ pc = "posting"
  /\ posts' = Append(posts, "fail")
  /\ IF ShouldBackoff(attempt)
     THEN /\ delays' = Append(delays, BackoffDelay(attempt))
          /\ lastError' = ErrorMessage(kind)
          /\ pc' = "sleeping"
          /\ UNCHANGED <<attempt, outcome, parsedResponse, analysis, response>>
     ELSE /\ NextIteration(ErrorMessage(kind))
          /\ UNCHANGED delays
  /\ UNCHANGED <<cropInfo, nextPhoto, apiKeys, rotationCounter, calls, aside>>

\* the backoff timer fires and the loop moves on
BackoffElapses ==
  /\ pc = "sleeping"
  /\ NextIteration(lastError)
  /\ UNCHANGED <<cropInfo, posts, delays, nextPhoto, apiKeys, rotationCounter, calls,
                 aside>>

\* the route handler after "await analyzeGrowthPhoto": it schedules the next
\* photo and answers 200; an error raised on the way is answered by the
\* handler's catch block with 500
RouteContinues ==
  /\ pc = "analysed"
  /\ LET r == calculateNextPhotoDate(analysis, cropInfo, analysis.growthStage)
     IN IF r.threw
        THEN /\ response' = Response(500, "Analysis failed", "issue.toLowerCase is not a function")
             /\ UNCHANGED nextPhoto
        ELSE /\ nextPhoto' = r.value
             /\ response' = Response(200, "", "Analysis complete")
  /\ pc' = "responded"
  /\ UNCHANGED <<cropInfo, attempt, lastError, posts, delays, outcome,
                 parsedResponse, analysis, apiKeys, rotationCounter, calls, aside>>

RotationInterval == 3

\* getNextApiKey starting the counter again when the pool wraps
getNextApiKeyWrapping(keys, counter) ==
  IF Len(keys) > 0
  THEN [keyIndex |-> ((counter \div RotationInterval) % Len(keys)) + 1,
        counter |-> (counter + 1) % (RotationInterval * Len(keys))]
  ELSE [keyIndex |-> 0, counter |-> counter]

\* getNextApiKey moving to the next key at every call
getNextApiKeyNoBatch(keys, counter) ==
  IF Len(keys) > 0
  THEN [keyIndex |-> (counter % Len(keys)) + 1, counter |-> counter + 1]
  ELSE [keyIndex |-> 0, counter |-> counter]

\* getNextApiKey counting the calls in the fallback branch too
getNextApiKeyCountingFallback(keys, counter) ==
  IF Len(keys) > 0
  THEN [keyIndex |-> ((counter \div RotationInterval) % Len(keys)) + 1,
        counter |-> counter + 1]
  ELSE [keyIndex |-> 0, counter |-> counter + 1]

\* getNextApiKey counting only the calls that stay on the same key
getNextApiKeyLosingUpdate(keys, counter) ==
  IF Len(keys) > 0
  THEN [keyIndex |-> ((counter \div RotationInterval) % Len(keys)) + 1,
        counter |-> IF (counter + 1) % RotationInterval = 0 THEN counter ELSE counter + 1]
  ELSE [keyIndex |-> 0, counter |-> counter]

\* getNextApiKey: the index of the key it returns (0 for the legacy key) and
\* the counter after the call
getNextApiKey(keys, counter) ==
  IF Len(keys) > 0
  THEN [keyIndex |-> ((counter \div RotationInterval) % Len(keys)) + 1,
        counter |-> counter + 1]
  ELSE [keyIndex |-> 0, counter |-> counter]

\* process.env.GEMINI_API_KEY, the key used when the pool is empty
LegacyKey == "legacy"

\* the key getNextApiKey returns: apiKeys[keyIndex], or the legacy key
selectedKey(keys, keyIndex) ==
  IF keyIndex = 0 THEN LegacyKey ELSE keys[keyIndex]

\* one call of getNextApiKey(): it runs to its return without an await, so
\* the read of rotationCounter, the choice of the key and the increment are
\* one step of the event loop
SelectKey ==
  LET r == getNextApiKey(apiKeys, rotationCounter)
  IN /\ rotationCounter' = r.counter
     /\ selected' = Append(selected, [observed |-> rotationCounter,
                                      keyIndex |-> r.keyIndex,
                                      key |-> selectedKey(apiKeys, r.keyIndex)])

\* callGeminiAPI, called by /analyze-plant, /consultation and /analyze-spray:
\* it builds its URL with getNextApiKey() before it posts
CallGeminiAPI ==
  /\ calls < MaxCalls
  /\ SelectKey
  /\ calls' = calls + 1
  /\ UNCHANGED <<pc, cropInfo, attempt, lastError, posts, delays, outcome,
                 parsedResponse, analysis, nextPhoto, response, apiKeys,
                 inFlight, decisions, settledCalls, runs>>

Next ==
  \/ \E req \in Requests : ReceiveRequest(req)
  \/ \E text \in ReplyTexts : AttemptReturns(text)
  \/ \E kind \in FailureKinds : AttemptThrows(kind)
  \/ BackoffElapses
  \/ RouteContinues
  \/ CallGeminiAPI

Spec == Init /\ [][Next]_vars

----------------------------------------------------------------------------
(* analyzeWithGemini called by concurrent requests: each call has its own   *)
(* attempt and lastError, and suspends only at its own awaits               *)

\* the loop of a call going on without counting the failed attempt
RunAdvancedNoCount(run, message) ==
  IF LoopContinues(run.attempt + 1)
  THEN [run EXCEPT !.pc = "posting", !.lastError = message]
  ELSE [run EXCEPT !.pc = "failed", !.lastError = message]

\* the loop of a call moves on after a failed attempt: attempt++, then the
\* next axios.post, or the throw after the loop
RunAdvanced(run, message) ==
  IF LoopContinues(run.attempt + 1)
  THEN [run EXCEPT !.attempt = @ + 1, !.pc = "posting", !.lastError = message]
  ELSE [run EXCEPT !.attempt = @ + 1, !.pc = "failed", !.lastError = message]

\* a request calls analyzeWithGemini, which runs to its first await axios.post
RunStarts(r) ==
  /\ runs[r].pc = "idle"
  /\ runs' = [runs EXCEPT ![r].pc = "posting"]
  /\ UNCHANGED <<pc, cropInfo, attempt, lastError, posts, delays, outcome,
                 parsedResponse, analysis, nextPhoto, response, apiKeys,
                 rotationCounter, calls, selected, inFlight, decisions, settledCalls>>

\* the axios.post of a call resolves with a text: the call returns it
RunPostResolves(r) ==
  /\ runs[r].pc = "posting"
  /\ runs' = [runs EXCEPT ![r].posts = Append(@, "ok"), ![r].pc = "returned"]
  /\ UNCHANGED <<pc, cropInfo, attempt, lastError, posts, delays, outcome,
                 parsedResponse, analysis, nextPhoto, response, apiKeys,
                 rotationCounter, calls, selected, inFlight, decisions, settledCalls>>

\* the attempt of a call fails, by an error, a bad status, the 30 s timeout
\* or an envelope without candidates: the catch block keeps the error and
\* sleeps if attempt < 2, else the loop moves on at once
RunPostRejects(r, kind) ==
  /\ runs[r].pc = "posting"
  /\ runs' =
       [runs EXCEPT ![r] =
          IF ShouldBackoff(runs[r].attempt)
          THEN [runs[r] EXCEPT !.posts = Append(@, "fail"),
                               !.delays = Append(@, BackoffDelay(runs[r].attempt)),
                               !.lastError = ErrorMessage(kind),
                               !.pc = "sleeping"]
          ELSE RunAdvanced([runs[r] EXCEPT !.posts = Append(@, "fail")],
                           ErrorMessage(kind))]
  /\ UNCHANGED <<pc, cropInfo, attempt, lastError, posts, delays, outcome,
                 parsedResponse, analysis, nextPhoto, response, apiKeys,
                 rotationCounter, calls, selected, inFlight, decisions, settledCalls>>

\* the backoff timer of a call fires
RunWakes(r) ==
  /\ runs[r].pc = "sleeping"
  /\ runs' = [runs EXCEPT ![r] = RunAdvanced(runs[r], runs[r].lastError)]
  /\ UNCHANGED <<pc, cropInfo, attempt, lastError, posts, delays, outcome,
                 parsedResponse, analysis, nextPhoto, response, apiKeys,
                 rotationCounter, calls, selected, inFlight, decisions, settledCalls>>

\* an attempt of call r completes, one way or the other
RunPostSettles(r) ==
  RunPostResolves(r) \/ \E kind \in FailureKinds : RunPostRejects(r, kind)

NextAnalyze ==
  \/ \E r \in Analysts : RunStarts(r)
  \/ \E r \in Analysts : RunPostResolves(r)
  \/ \E r \in Analysts, kind \in FailureKinds : RunPostRejects(r, kind)
  \/ \E r \in Analysts : RunWakes(r)

\* every axios.post settles (its timeout of 30000 ms bounds it) and every
\* setTimeout fires
SpecAnalyze ==
  /\ Init
  /\ [][NextAnalyze]_vars
  /\ \A r \in Analysts : WF_vars(RunPostSettles(r)) /\ WF_vars(RunWakes(r))

----------------------------------------------------------------------------
(* The key pool under concurrent callers: the endpoints that call           *)
(* callGeminiAPI, each awaiting its own axios.post                          *)

\* the most selections followed
MaxSelections == 10

\* the requests being served at once
Callers == 1..3

\* the pools the environment can configure: GEMINI_API_KEY_1.. set or not
Pools == {<<>>, <<"key1">>, <<"key1", "key2">>, <<"key1", "key2", "key3">>}

\* callGeminiAPI up to its await: the URL is built with getNextApiKey() and
\* axios.post is started
CallerPosts(p) ==
  /\ p \notin inFlight
  /\ calls < MaxSelections
  /\ SelectKey
  /\ calls' = calls + 1
  /\ inFlight' = inFlight \cup {p}
  /\ UNCHANGED <<pc, cropInfo, attempt, lastError, posts, delays, outcome,
                 parsedResponse, analysis, nextPhoto, response, apiKeys, decisions,
                 settledCalls, runs>>

\* the axios.post of a caller resolves (ok) or rejects: callGeminiAPI returns
\* the text or throws 'AI analysis failed'; neither touches the pool
CallerSettles(p, ok) ==
  /\ p \in inFlight
  /\ inFlight' = inFlight \ {p}
  /\ settledCalls' = IF ok THEN [settledCalls EXCEPT !.returned = @ + 1]
                     ELSE [settledCalls EXCEPT !.threw = @ + 1]
  /\ UNCHANGED <<pc, cropInfo, attempt, lastError, posts, delays, outcome,
                 parsedResponse, analysis, nextPhoto, response, apiKeys,
                 rotationCounter, calls, selected, decisions, runs>>

InitPool == \E keys \in Pools : InitWith(keys)

NextPool ==
  \/ \E p \in Callers : CallerPosts(p)
  \/ \E p \in Callers, ok \in BOOLEAN : CallerSettles(p, ok)

SpecPool == InitPool /\ [][NextPool]_vars

----------------------------------------------------------------------------
(* Properties *)

\* analyzeGrowthPhoto has settled: an upstream attempt was made and the
\* request is past the analyzeWithGemini loop
Settled == pc \in {"analysed", "responded"} /\ posts # <<>>

AnalysisFields ==
  {"healthScore", "growthStage", "issues", "observations", "recommendations",
   "nextPhotoDays", "urgency"}

\* analyzeWithGemini returned a text from which no JSON object is extracted:
\* it is not a string, holds no "{" followed by "}", or the part between the
\* first "{" and the last "}" is not valid JSON
Unparseable ==
  /\ ~outcome.threw
  /\ \/ outcome.value.t # "string"
     \/ \E jsonMatch \in {RegexMatch(outcome.value.s)} :
          ~jsonMatch.found \/ JSONParse(jsonMatch.text).threw

\* C1: whatever the upstream call gave (a text with a JSON object, a text
\* without braces, braces around invalid JSON, an empty or missing text, a
\* failure), analyzeGrowthPhoto resolves with a record that has every field,
\* and no error of the normalization path reaches the route's catch block
\* (a 500 answer can only carry the scheduling step's error).
NormalizeNeverFails ==
  Settled =>
    /\ \A f \in AnalysisFields : analysis[f].t # "undefined"
    /\ analysis.issues.t = "array" /\ analysis.recommendations.t = "array"
    /\ response.status = 500 => response.message = "issue.toLowerCase is not a function"

\* C1 witness: a reply without a text member was normalized to a full record
NormalizeNeverFailsWitness ==
  /\ pc = "analysed"
  /\ ~outcome.threw /\ outcome.value = Undef
  /\ \A f \in AnalysisFields : analysis[f].t # "undefined"

\* C2 (the claim as stated; refuted by the code): the route never answers an
\* analysed photo with an error, whatever record normalization returned.
ScheduleNeverFails == (pc = "responded" /\ Settled) => response.status = 200

\* C3 (the claim as stated; refuted by the code): the nextPhotoDays of every
\* schedule decision is a number in [1,7].
ScheduledDaysInRange ==
  (pc = "responded" /\ response.status = 200) =>
    (nextPhoto.nextPhotoDays.t = "number" /\ nextPhoto.nextPhotoDays.n \in 1..7)

\* C4 (the claim as stated; refuted by the code): the healthScore of every
\* record analyzeGrowthPhoto resolves with is a number in [0,100].
HealthScoreInRange ==
  Settled => (analysis.healthScore.t = "number" /\ analysis.healthScore.n \in 0..100)

\* C5: when analyzeWithGemini fails (all attempts exhausted), the analysis is
\* the unavailable record: healthScore 50, growthStage unknown, the issue
\* "Analysis failed - manual review needed", observations "AI analysis
\* unavailable", the two recommendations, hint 3, urgency important.
UnavailableOnFailure ==
  (Settled /\ outcome.threw) =>
    /\ analysis.healthScore = Num(50)
    /\ analysis.growthStage = Str("unknown")
    /\ analysis.issues = Arr(<<Str("Analysis failed - manual review needed")>>)
    /\ analysis.observations = Str("AI analysis unavailable")
    /\ analysis.recommendations = Arr(<<Str("Upload photo again"), Str("Check image quality")>>)
    /\ analysis.nextPhotoDays = Num(3)
    /\ analysis.urgency = Str("important")

\* C5 witness: three failed attempts, and the analysis has been produced
UnavailableOnFailureWitness ==
  pc = "analysed" /\ outcome.threw /\ posts = <<"fail", "fail", "fail">>

\* C6: when the text holds no {...} part, or that part is not valid JSON, the
\* analysis is the degraded record: healthScore 50, growthStage unknown, the
\* issue "Unable to parse AI response", observations the raw text (or
\* "Analysis unavailable" when the text is empty or missing), the
\* recommendation "Manual review needed", hint 3, urgency important.
DegradedOnUnparseable ==
  (Settled /\ Unparseable) =>
    /\ analysis.healthScore = Num(50)
    /\ analysis.growthStage = Str("unknown")
    /\ analysis.issues = Arr(<<Str("Unable to parse AI response")>>)
    /\ analysis.observations =
         (IF outcome.value \in {Undef, Str("")} THEN Str("Analysis unavailable")
          ELSE outcome.value)
    /\ analysis.recommendations = Arr(<<Str("Manual review needed")>>)
    /\ analysis.nextPhotoDays = Num(3)
    /\ analysis.urgency = Str("important")

\* C6 witness: braces around text that is not JSON gave the degraded record
\* with the raw text as observations
DegradedOnUnparseableWitness ==
  /\ Settled
  /\ outcome = Returned(Str("{the plant looks healthy}"))
  /\ analysis.observations = Str("{the plant looks healthy}")

\* C7 (the claim as stated; refuted by the code): after a failed upstream call
\* or an unparseable text the client is answered 200 with a schedule whose
\* urgency is important.
FailureScheduleImportant ==
  (pc = "responded" /\ Settled /\ (outcome.threw \/ Unparseable)) =>
    (response.status = 200 /\ nextPhoto.urgency = Str("important"))

\* C8: analyzeWithGemini makes at most 3 attempts, each after a failed one;
\* a successful attempt ends the call at once with a returned text, and the
\* call fails exactly when three attempts have failed.
AttemptsUntilFirstSuccess ==
  /\ Len(posts) <= 3
  /\ \A i \in 1..Len(posts) : i < Len(posts) => posts[i] = "fail"
  /\ (posts # <<>> /\ posts[Len(posts)] = "ok") <=> (Settled /\ ~outcome.threw)
  /\ (posts = <<"fail", "fail", "fail">>) <=> (Settled /\ outcome.threw)

\* C8 witness: the second attempt was the first to succeed and the request
\* was answered after two attempts
AttemptsUntilFirstSuccessWitness ==
  pc = "responded" /\ posts = <<"fail", "ok">> /\ ~outcome.threw

\* C9: the first attempt has no delay before it, the second follows a sleep
\* of 1000 ms and the third one of 2000 ms; no sleep follows the third
\* failure, so an always failing upstream gives the delays 1000, 2000.
BackoffSchedule ==
  /\ Len(delays) <= 2
  /\ \A i \in 1..Len(delays) : delays[i] = i * 1000
  /\ pc \in {"posting", "sleeping"} => Len(delays) = Len(posts)
  /\ (Settled /\ outcome.threw) => delays = <<1000, 2000>>

\* C9 witness: the call failed after the two sleeps
BackoffScheduleWitness ==
  Settled /\ outcome.threw /\ delays = <<1000, 2000>> /\ Len(posts) = 3

\* C10 (the claim as stated; refuted by the code): every upstream attempt of
\* analyzeWithGemini takes its key from getNextApiKey, so each attempt
\* advances rotationCounter by one.
EveryAttemptSelectsKey ==
  [][Len(posts') = Len(posts) + 1 => rotationCounter' = rotationCounter + 1]_vars

----------------------------------------------------------------------------
(* calculateNextPhotoDate on its own: called, and called again, on an       *)
(* analysis record drawn from bounded sets                                  *)

\* the most calls made on one analysis
MaxSchedules == 2

ScheduleHealth == {Num(0), Num(60), Num(69), Num(70), Num(90)}

\* the hint, missing or within [1,7]
ScheduleHints == {Undef} \cup {Num(h) : h \in 1..7}

PlainIssues ==
  {Arr(<<>>), Arr(<<Str("yellow leaves")>>)}

AlarmingIssues ==
  {Arr(<<Str("pest damage observed")>>),
   Arr(<<Str("Leaf DISEASE spots")>>),
   Arr(<<Str("yellow leaves"), Str("Plant is Dying")>>)}

ScheduleStages ==
  {"germination", "flowering", "fruiting", "maturity", "vegetative", "unknown",
   "constructor"}

\* the currentAnalysis arguments tried
ScheduleInputs ==
  {[healthScore |-> h,
    growthStage |-> Str(g),
    issues |-> i,
    observations |-> Str("Leaves look green"),
    recommendations |-> Arr(<<Str("Water daily")>>),
    nextPhotoDate |-> Null,
    nextPhotoDays |-> d,
    urgency |-> Str(u)] :
     h \in ScheduleHealth, g \in ScheduleStages,
     i \in PlainIssues \cup AlarmingIssues, d \in ScheduleHints,
     u \in {"routine", "urgent"}}

\* the cropType arguments tried
ScheduleCrops == {Str("rice"), Str("tomato")}

InitSchedule ==
  /\ pc = "analysed"
  /\ cropInfo \in ScheduleCrops
  /\ attempt = 0
  /\ lastError = ""
  /\ posts = <<>>
  /\ delays = <<>>
  /\ outcome = NoOutcome
  /\ parsedResponse = EmptyObject
  /\ analysis \in ScheduleInputs
  /\ nextPhoto = NoDecision
  /\ response = NoResponse
  /\ apiKeys = ConfiguredKeys
  /\ rotationCounter = 0
  /\ calls = 0
  /\ selected = <<>>
  /\ inFlight = {}
  /\ decisions = <<>>
  /\ settledCalls = [returned |-> 0, threw |-> 0]
  /\ runs = [r \in Analysts |-> NoRun]

\* calculateNextPhotoDate writing the days it computed back into its argument
ComputeScheduleInPlace ==
  /\ pc = "analysed"
  /\ Len(decisions) < MaxSchedules
  /\ LET r == calculateNextPhotoDate(analysis, cropInfo, analysis.growthStage)
     IN /\ decisions' = Append(decisions, r)
        /\ analysis' = IF r.threw THEN analysis
                       ELSE [analysis EXCEPT !.nextPhotoDays = r.value.nextPhotoDays]
  /\ UNCHANGED <<pc, cropInfo, attempt, lastError, posts, delays, outcome,
                 parsedResponse, nextPhoto, response, apiKeys,
                 rotationCounter, calls, selected, inFlight, settledCalls, runs>>

\* one call calculateNextPhotoDate(analysis, cropType, analysis.growthStage):
\* it reads its arguments into locals, assigns only to them and returns a new
\* object
ComputeSchedule ==
  /\ pc = "analysed"
  /\ Len(decisions) < MaxSchedules
  /\ decisions' = Append(decisions,
                         calculateNextPhotoDate(analysis, cropInfo, analysis.growthStage))
  /\ UNCHANGED <<pc, cropInfo, attempt, lastError, posts, delays, outcome,
                 parsedResponse, analysis, nextPhoto, response, apiKeys,
                 rotationCounter, calls, selected, inFlight, settledCalls, runs>>

NextSchedule == ComputeSchedule

SpecSchedule == InitSchedule /\ [][NextSchedule]_vars

----------------------------------------------------------------------------
(* Properties of the key pool and of the schedule *)

\* C11: with a non-empty pool of N keys, the selection made at counter c
\* returns apiKeys[floor(c / 3) mod N], an index within [0, N), and leaves
\* the counter at c + 1; from 0 each key serves 3 selections in a row and the
\* pool wraps after its last key (two keys: indices 0,0,0,1,1,1 and then 0).
RotationBatches ==
  Len(apiKeys) > 0 =>
    /\ \A i \in 1..Len(selected) :
         /\ selected[i].keyIndex \in 1..Len(apiKeys)
         /\ selected[i].key = apiKeys[(((i - 1) \div 3) % Len(apiKeys)) + 1]
    /\ rotationCounter = Len(selected)
    /\ (Len(apiKeys) = 2 /\ Len(selected) >= 6) =>
         [i \in 1..6 |-> selected[i].keyIndex - 1] = <<0, 0, 0, 1, 1, 1>>

\* C11 witness: the seventh selection from a pool of two keys is back at the
\* first key
RotationBatchesWitness ==
  /\ apiKeys = <<"key1", "key2">>
  /\ Len(selected) = 7
  /\ selected[6].key = "key2" /\ selected[7].key = "key1"

\* C12: with an empty pool every selection returns the legacy key and the
\* counter stays where it was, however many selections are made.
LegacyFallback ==
  apiKeys = <<>> =>
    /\ rotationCounter = 0
    /\ \A i \in 1..Len(selected) :
         selected[i].key = "legacy" /\ selected[i].observed = 0

\* C12 witness: four selections from the empty pool
LegacyFallbackWitness ==
  apiKeys = <<>> /\ Len(selected) = 4 /\ rotationCounter = 0

\* C13: whatever the interleaving of the requests that are awaiting their
\* upstream reply, with a non-empty pool no two selections saw the same
\* counter value, the values seen are the consecutive integers from 0, and
\* the counter has grown by one per selection made.
AtomicSelection ==
  Len(apiKeys) > 0 =>
    /\ \A i, j \in 1..Len(selected) :
         i # j => selected[i].observed # selected[j].observed
    /\ {selected[i].observed : i \in 1..Len(selected)} = 0..(calls - 1)
    /\ rotationCounter = calls

\* C13 witness: three requests are awaiting their reply at once, after an
\* earlier one settled, each with a counter value of its own
AtomicSelectionWitness ==
  /\ Len(apiKeys) > 0
  /\ inFlight = Callers
  /\ calls = 4
  /\ {selected[i].observed : i \in 1..4} = 0..3

\* the reference of C14, on integers: the hint (4 if missing), one day less
\* (not below 1) under health 70, at most 2 with an alarming issue, the stage
\* adjustment, and the clamp to [1,7]
RefMax(a, b) == IF a >= b THEN a ELSE b

RefMin(a, b) == IF a <= b THEN a ELSE b

RefStage(stage) ==
  CASE stage \in {"germination", "maturity"} -> 1
    [] stage \in {"flowering", "fruiting"} -> -1
    [] OTHER -> 0

RefDays(a) ==
  LET d0 == IF a.nextPhotoDays = Undef THEN 4 ELSE a.nextPhotoDays.n
      d1 == IF a.healthScore.n < 70 THEN RefMax(1, d0 - 1) ELSE d0
      d2 == IF a.issues \in AlarmingIssues THEN RefMin(2, d1) ELSE d1
      d3 == d2 + RefStage(a.growthStage.s)
  IN RefMax(1, RefMin(7, d3))

\* C14 (the claim as stated; refuted by the code): for every hint in [1,7] or
\* missing, every healthScore, issue list and stage, calculateNextPhotoDate
\* returns the days of the reference, a stage outside the four adjusted ones
\* adding 0.
ScheduleMatchesReference ==
  \A i \in 1..Len(decisions) :
    /\ ~decisions[i].threw
    /\ decisions[i].value.nextPhotoDays = Num(RefDays(analysis))

\* C15: the urgency of a schedule decision follows from its nextPhotoDays
\* alone: critical for 2 or less, important for 3, routine otherwise; it is
\* never urgent, also when the analysis's own urgency is.
UrgencyFromDays ==
  \A i \in 1..Len(decisions) :
    LET d == decisions[i].value.nextPhotoDays
    IN decisions[i].value.urgency =
         Str(IF d.t = "number" /\ d.n <= 2 THEN "critical"
             ELSE IF d.t = "number" /\ d.n = 3 THEN "important"
             ELSE "routine")

\* C15 witness: an analysis marked urgent got a decision of 3 days, important
UrgencyFromDaysWitness ==
  /\ analysis.urgency = Str("urgent")
  /\ Len(decisions) = 1
  /\ decisions[1].value.nextPhotoDays = Num(3)
  /\ decisions[1].value.urgency = Str("important")

----------------------------------------------------------------------------
(* Properties of the extraction and of the validated record *)

RECURSIVE BalancedEnd(_, _, _)
\* the index of the "}" that closes the object opened before index i at the
\* given depth, by counting braces; 0 when the text ends first
BalancedEnd(s, i, depth) ==
  IF i > Len(s) THEN 0
  ELSE IF Ch(s, i) = "{" THEN BalancedEnd(s, i + 1, depth + 1)
  ELSE IF Ch(s, i) = "}"
       THEN (IF depth = 1 THEN i ELSE BalancedEnd(s, i + 1, depth - 1))
  ELSE BalancedEnd(s, i + 1, depth)

\* the first balanced {...} of a text, "" when there is none
FirstBalanced(s) ==
  LET first == IndexOf(s, "{", 1)
      last == IF first = 0 THEN 0 ELSE BalancedEnd(s, first + 1, 1)
  IN IF last = 0 THEN "" ELSE SubSeq(s, first, last)

\* the text returned holds a {...} part that JSON.parse accepted, so that
\* parsedResponse is the parsed object
Extracted == ~outcome.threw /\ ~Unparseable

\* a text was returned and what parseGeminiResponse made of it goes to the
\* field by field validation: that is a parsed object, since the wrapper of
\* an unparseable text has parsed = false
Validated ==
  /\ ~outcome.threw
  /\ ~Truthy(parsedResponse.parsed) /\ parsedResponse.parsed # Bool(FALSE)

\* C17 (the claim as stated; refuted by the code): when the first balanced
\* {...} of the text is a valid JSON object, the record is built from that
\* object, also when a further "}" follows it in the text.
FirstBalancedObjectExtracted ==
  (Settled /\ ~outcome.threw /\ outcome.value.t = "string"
           /\ ~JSONParse(FirstBalanced(outcome.value.s)).threw) =>
    analysis = formatAnalysisForStorage(JSONParse(FirstBalanced(outcome.value.s)).obj)

\* C18 (the claim as stated; refuted by the code): the healthScore of a
\* validated record is the parsed healthScore clamped to [0,100] when that is
\* a number (0 stays 0), and 50 when it is missing or not a number.
HealthScoreClamped ==
  (Settled /\ Validated) =>
    analysis.healthScore =
      (IF parsedResponse.healthScore.t = "number"
       THEN Num(RefMax(0, RefMin(100, parsedResponse.healthScore.n)))
       ELSE Num(50))

\* C19 (the claim as stated; refuted by the code): the hint of a validated
\* record is the parsed nextPhotoDays clamped to [1,7] when that is a number
\* (0 and negatives become 1), and 4 when it is missing.
HintClamped ==
  (Settled /\ Validated /\ parsedResponse.nextPhotoDays.t \in {"number", "undefined"}) =>
    analysis.nextPhotoDays =
      (IF parsedResponse.nextPhotoDays.t = "number"
       THEN Num(RefMax(1, RefMin(7, parsedResponse.nextPhotoDays.n)))
       ELSE Num(4))

\* C20 (the claim as stated; refuted by the code): after a successful
\* extraction, issues and recommendations are each the parsed value when
\* that is an array and the empty array otherwise.
SequencesPassedOrEmptied ==
  (Settled /\ Extracted) =>
    /\ analysis.issues =
         (IF IsArray(parsedResponse.issues) THEN parsedResponse.issues ELSE Arr(<<>>))
    /\ analysis.recommendations =
         (IF IsArray(parsedResponse.recommendations) THEN parsedResponse.recommendations
          ELSE Arr(<<>>))

\* C20, amended: when the parsed object goes to the field by field
\* validation (its parsed member is falsy and not false), issues is the
\* parsed value when that is an array and the empty array otherwise, and
\* recommendations is the parsed value when that is an array and the single
\* recommendation "Monitor plant growth" otherwise.
SequencesPassedOrDefaulted ==
  (Settled /\ Validated) =>
    /\ analysis.issues =
         (IF IsArray(parsedResponse.issues) THEN parsedResponse.issues ELSE Arr(<<>>))
    /\ analysis.recommendations =
         (IF IsArray(parsedResponse.recommendations) THEN parsedResponse.recommendations
          ELSE Arr(<<Str("Monitor plant growth")>>))

\* C20 witness: an issues array was passed through beside a recommendations
\* string that was replaced by the default
SequencesPassedOrDefaultedWitness ==
  /\ Settled /\ Validated
  /\ parsedResponse.issues = Arr(<<Str("Pest damage observed")>>)
  /\ analysis.issues = parsedResponse.issues
  /\ parsedResponse.recommendations = Str("none")
  /\ analysis.recommendations = Arr(<<Str("Monitor plant growth")>>)

GrowthStageInEnum ==
  Settled =>
    analysis.growthStage \in
      {Str(g) : g \in {"germination", "vegetative", "flowering", "fruiting",
                       "maturity", "unknown"}}

\* C24 (the claim as stated; refuted by the code): a reply whose envelope
\* holds no text is a failed attempt, so analyzeWithGemini returns only a
\* text, and only from an attempt that succeeded.
OnlyTextReturned ==
  (Settled /\ ~outcome.threw) => outcome.value.t = "string"

\* parseGeminiResponse returned an object parsed from the reply text, not its
\* own wrapper (which carries the raw text, or the error of a missing text),
\* and that object has a member parsed that is true or false
ParsedMemberSet ==
  /\ ~outcome.threw
  /\ parsedResponse.rawResponse = Undef /\ parsedResponse.error = Undef
  /\ parsedResponse.parsed \in {Bool(TRUE), Bool(FALSE)}

\* C28: an object parsed from the reply text is validated field by field
\* when its parsed member is falsy and not false; when the AI's object has a
\* member parsed that is true or false, all its fields are dropped and the
\* analysis is the degraded record, with "Analysis unavailable" as
\* observations since the object has no rawResponse.
ParsedMemberDegrades ==
  /\ (Settled /\ ParsedMemberSet) =>
       /\ analysis = DegradedRecord(EmptyObject)
       /\ analysis.issues = Arr(<<Str("Unable to parse AI response")>>)
       /\ analysis.healthScore = Num(50)
       /\ analysis.urgency = Str("important")
       /\ analysis.observations = Str("Analysis unavailable")
  /\ (Settled /\ Validated) =>
       analysis.issues # Arr(<<Str("Unable to parse AI response")>>)

\* C28 witness: a health score of 85 beside "parsed": true was dropped
ParsedMemberDegradesWitness ==
  /\ Settled
  /\ parsedResponse.parsed = Bool(TRUE)
  /\ parsedResponse.healthScore = Num(85)
  /\ analysis.healthScore = Num(50)

\* C23: no step of the rotating server decreases or resets rotationCounter,
\* and with a non-empty pool it equals the number of calls of callGeminiAPI
\* made so far: those that returned, those that threw and those still
\* awaiting their reply, one selection each.
CounterOnlyIncreases ==
  /\ [][rotationCounter' >= rotationCounter]_vars
  /\ [](Len(apiKeys) > 0 =>
          rotationCounter =
            settledCalls.returned + settledCalls.threw + Cardinality(inFlight))

\* C23 witness: the pool of two keys has wrapped, calls have returned and
\* thrown, and one is still awaiting its reply
CounterOnlyIncreasesWitness ==
  /\ Len(apiKeys) = 2
  /\ rotationCounter = 8
  /\ settledCalls.returned = 4 /\ settledCalls.threw = 3
  /\ Cardinality(inFlight) = 1

\* C25: if every attempt completes and every backoff sleep ends, each call of
\* analyzeWithGemini that was made eventually returns a text or fails; it
\* never makes more than 3 attempts or takes more than 2 sleeps, it fails
\* only after 3 attempts, and a step of one request changes nothing of
\* another request's call.
AnalyzeTerminates ==
  /\ \A r \in Analysts :
       (runs[r].pc # "idle") ~> (runs[r].pc \in {"returned", "failed"})
  /\ [](\A r \in Analysts :
          /\ Len(runs[r].posts) <= 3 /\ Len(runs[r].delays) <= 2
          /\ runs[r].attempt <= 3
          /\ runs[r].pc = "failed" =>
               runs[r].posts = <<"fail", "fail", "fail">>)
  /\ [][\A r, q \in Analysts :
          (r # q /\ runs'[r] # runs[r]) => runs'[q] = runs[q]]_vars

\* C25 witness: one request's call failed after 3 attempts and 2 sleeps while
\* the other's returned from its first attempt
AnalyzeTerminatesWitness ==
  /\ runs[1].pc = "failed"
  /\ Len(runs[1].posts) = 3 /\ Len(runs[1].delays) = 2
  /\ runs[2].pc = "returned"
  /\ runs[2].posts = <<"ok">>

\* C26: the days and the urgency calculateNextPhotoDate returns are those it
\* returns for any other cropType and for an analysis with another urgency,
\* other observations and other recommendations, the hint, the health score,
\* the issues and the growth stage being the same.
DecisionIgnoresRest ==
  decisions # <<>> =>
    \E others \in
         {{calculateNextPhotoDate(analysis, CHOOSE crop \in ScheduleCrops : crop # cropInfo,
                                  analysis.growthStage),
           calculateNextPhotoDate([analysis EXCEPT !.urgency = Str("critical"),
                                                   !.observations = Str(""),
                                                   !.recommendations = Arr(<<>>)],
                                  cropInfo, analysis.growthStage)}} :
      \A i \in 1..Len(decisions), other \in others :
        /\ other.threw = decisions[i].threw
        /\ other.value.nextPhotoDays = decisions[i].value.nextPhotoDays
        /\ other.value.urgency = decisions[i].value.urgency

\* C26 witness: a decision made for tomato on an analysis marked urgent
DecisionIgnoresRestWitness ==
  /\ Len(decisions) = 1
  /\ cropInfo = Str("tomato")
  /\ analysis.urgency = Str("urgent")
  /\ decisions[1].value.nextPhotoDays = Num(5)
  /\ decisions[1].value.urgency = Str("routine")

\* C27 (the claim as stated; refuted by the code): with an issue that holds
\* "disease", "pest" or "dying" in any case, the decision has at most 3 days
\* and an urgency other than routine, for every hint in [1,7], health score
\* and growth stage.
AlarmCapsDays ==
  \A i \in 1..Len(decisions) :
    (analysis.issues \in AlarmingIssues /\ analysis.nextPhotoDays # Undef) =>
      /\ decisions[i].value.nextPhotoDays.t = "number"
      /\ decisions[i].value.nextPhotoDays.n <= 3
      /\ decisions[i].value.urgency # Str("routine")

====
